---- MODULE Spec2Model ----
(***************************************************************************)
(* Resource allocation by marginal-cost equalisation                       *)
(* (Implementation/resource_allocation.go).                                *)
(*                                                                         *)
(* The driver builds one System per algorithm from the same configuration  *)
(* and runs FirstDerivativeAlgorithm, SecondDerivativeAlgorithm and        *)
(* PairwiseAlgorithm on them in turn.  Every iteration forks one goroutine *)
(* per node, joins them on a WaitGroup and then updates the allocations.   *)
(*                                                                         *)
(* float64 is modelled as a small floating format with the IEEE-754        *)
(* structure the program depends on: finite values are multiples of        *)
(* 1/Scale between -MaxFin/Scale and MaxFin/Scale, every operation rounds  *)
(* its exact result to the nearest representable value, a result beyond    *)
(* the finite range is +Inf or -Inf, x/0 is an infinity, and 0/0, Inf-Inf  *)
(* and 0*Inf are NaN, which every comparison answers with FALSE.           *)
(***************************************************************************)
EXTENDS Integers, Sequences, FiniteSets, TLC

\* ------------------------------------------------------------------ float64

\* Representable finite values are k/Scale for integers k, |k| <= MaxFin.
Scale == 10000
MaxFin == 200000000

PInf == MaxFin + 1
NInf == -(MaxFin + 1)
NaN == MaxFin + 2

IsNaN(a) == a = NaN
IsInf(a) == a = PInf \/ a = NInf
IsFin(a) == a >= -MaxFin /\ a <= MaxFin

Abs(a) == IF a < 0 THEN -a ELSE a

\* A finite exact result rounded into the format: overflow gives an infinity.
Sat(v) == IF v > MaxFin THEN PInf ELSE IF v < -MaxFin THEN NInf ELSE v

\* float64(n) of an int, and the literals of the source, as format values.
FInt(n) == n * Scale
FZero == 0
FOne == Scale

\* Each operation evaluates its operands once, as the machine does, and then
\* works on the two values a and b.

FNeg(x) == CHOOSE r \in {IF IsNaN(a) THEN NaN ELSE -a : a \in {x}} : TRUE

FAdd(x, y) ==
    CHOOSE r \in
        { IF IsNaN(a) \/ IsNaN(b) THEN NaN
          ELSE IF IsInf(a) /\ IsInf(b) THEN (IF a = b THEN a ELSE NaN)
          ELSE IF IsInf(a) THEN a
          ELSE IF IsInf(b) THEN b
          ELSE Sat(a + b) : a \in {x}, b \in {y} } : TRUE

FSub(x, y) == FAdd(x, FNeg(y))

\* sign of a product or quotient of two non-NaN values
NegSign(a, b) == (a < 0) # (b < 0)

SignedInf(neg) == IF neg THEN NInf ELSE PInf

\* |a|*|b|/Scale rounded to nearest, computed in parts so that no
\* intermediate exceeds the checker's integers.
MulFin(a, b) ==
    LET A == Abs(a)
        B == Abs(b)
        ah == A \div Scale
        al == A % Scale
        bh == B \div Scale
        bl == B % Scale
    IN  IF ah * bh > MaxFin \div Scale THEN SignedInf(NegSign(a, b))
        ELSE LET m == ah * bh * Scale + ah * bl + al * bh
                      + (al * bl + Scale \div 2) \div Scale
             IN  Sat(IF NegSign(a, b) THEN -m ELSE m)

FMul(x, y) ==
    CHOOSE r \in
        { IF IsNaN(a) \/ IsNaN(b) THEN NaN
          ELSE IF IsInf(a) \/ IsInf(b)
               THEN (IF a = 0 \/ b = 0 THEN NaN ELSE SignedInf(NegSign(a, b)))
          ELSE MulFin(a, b) : a \in {x}, b \in {y} } : TRUE

\* floor(r*s/B), digit by digit (s is a power of ten), r < B
RECURSIVE FracDigits(_, _, _)
FracDigits(r, B, s) ==
    IF s = 1 THEN 0
    ELSE CHOOSE d \in
            { (t \div B) * (s \div 10) + FracDigits(t % B, B, s \div 10) :
                 t \in {r * 10} } : TRUE

\* |a|*Scale/|b| rounded to nearest, b # 0: the integer part, Scale times
\* the quotient of the remainder, and a last unit when the next digit is 5
\* or more.
DivFin(a, b) ==
    LET A == Abs(a)
        B == Abs(b)
        q == A \div B
    IN  IF q > MaxFin \div Scale THEN SignedInf(NegSign(a, b))
        ELSE CHOOSE v \in
                { Sat(IF NegSign(a, b) THEN -m ELSE m) :
                     m \in { q * Scale + (f + 5) \div 10 :
                                f \in {FracDigits(A % B, B, Scale * 10)} } } : TRUE

FDiv(x, y) ==
    CHOOSE r \in
        { IF IsNaN(a) \/ IsNaN(b) THEN NaN
          ELSE IF IsInf(a)
               THEN (IF IsInf(b) THEN NaN ELSE SignedInf(NegSign(a, b)))
          ELSE IF IsInf(b) THEN 0
          ELSE IF b = 0 THEN (IF a = 0 THEN NaN ELSE SignedInf(a < 0))
          ELSE DivFin(a, b) : a \in {x}, b \in {y} } : TRUE

FAbs(x) == CHOOSE r \in {IF IsNaN(a) THEN NaN ELSE Abs(a) : a \in {x}} : TRUE

\* Comparisons: FALSE as soon as an operand is NaN.  The infinities are the
\* least and greatest values of the representation, so the integer order is
\* the float order on everything that is not NaN.
FLt(x, y) == \E a \in {x}, b \in {y} : ~IsNaN(a) /\ ~IsNaN(b) /\ a < b
FLe(x, y) == \E a \in {x}, b \in {y} : ~IsNaN(a) /\ ~IsNaN(b) /\ a <= b
FGt(x, y) == \E a \in {x}, b \in {y} : ~IsNaN(a) /\ ~IsNaN(b) /\ a > b
FGe(x, y) == \E a \in {x}, b \in {y} : ~IsNaN(a) /\ ~IsNaN(b) /\ a >= b
FEq(x, y) == \E a \in {x}, b \in {y} : ~IsNaN(a) /\ ~IsNaN(b) /\ a = b

\* math.Min and math.Max: an infinity of the right sign wins, then NaN.
FMin(x, y) ==
    CHOOSE r \in
        { IF a = NInf \/ b = NInf THEN NInf
          ELSE IF IsNaN(a) \/ IsNaN(b) THEN NaN
          ELSE IF a < b THEN a ELSE b : a \in {x}, b \in {y} } : TRUE

FMax(x, y) ==
    CHOOSE r \in
        { IF a = PInf \/ b = PInf THEN PInf
          ELSE IF IsNaN(a) \/ IsNaN(b) THEN NaN
          ELSE IF a > b THEN a ELSE b : a \in {x}, b \in {y} } : TRUE

\* ------------------------------------------------- literals of the source

StabilityThreshold == Scale \div 100      \* 0.01
Ci == Scale \div 2                        \* 0.5
KMax == 5 * Scale                         \* 5.0
ClampLo == Scale \div 1000                \* 0.001
ClampHi == (9 * Scale) \div 10            \* 0.90

\* ------------------------------------------------------------ System, Node

\* left-to-right accumulation "total += v" from 0.0
RECURSIVE SumUpTo(_, _)
SumUpTo(vs, k) == IF k = 0 THEN FZero ELSE FAdd(SumUpTo(vs, k - 1), vs[k])

SumF(vs) == SumUpTo(vs, Len(vs))

NilSystem == [Nodes |-> <<>>, K |-> 0, TotalLambda |-> 0, CostHistory |-> <<>>]

\* Nodes[i] of the model is s.Nodes[i-1] of the program.
CreateNewSystem(lambdas, mu, K) ==
    LET n == Len(lambdas)
    IN  [Nodes |-> [i \in 1..n |->
                      [ID |-> i - 1,
                       Lambda |-> lambdas[i],
                       Mu |-> mu,
                       Allocation |-> FDiv(FOne, FInt(n))]],
         K |-> K,
         TotalLambda |-> SumF(lambdas),
         CostHistory |-> <<>>]

Allocations(s) == [i \in 1..Len(s.Nodes) |-> s.Nodes[i].Allocation]

\* denominator := node.Mu - s.TotalLambda*xi
Denominator(s, i) ==
    FSub(s.Nodes[i].Mu, FMul(s.TotalLambda, s.Nodes[i].Allocation))

\* the loop of ComputeCost from node i on, totalCost accumulated so far
RECURSIVE CostFrom(_, _, _)
CostFrom(s, i, totalCost) ==
    IF i > Len(s.Nodes) THEN totalCost
    ELSE LET denominator == Denominator(s, i)
         IN  IF FLe(denominator, StabilityThreshold) THEN PInf
             ELSE LET Ti == FDiv(FOne, denominator)
                  IN  CostFrom(s, i + 1,
                        FAdd(totalCost,
                             FMul(FAdd(Ci, FMul(s.K, Ti)), s.Nodes[i].Lambda)))

ComputeCost(s) == CostFrom(s, 1, FZero)

ComputeFirstDerivative(s, i) ==
    LET denominator == Denominator(s, i)
    IN  FDiv(FMul(FMul(s.K, s.Nodes[i].Lambda), s.TotalLambda),
             FMul(denominator, denominator))

Compute1onSecondDerivative(s, i) ==
    LET denominator == Denominator(s, i)
        secondDerivative ==
            FDiv(FMul(FMul(FMul(FInt(2), s.K), s.Nodes[i].Lambda),
                      FMul(s.TotalLambda, s.TotalLambda)),
                 FMul(FMul(denominator, denominator), denominator))
    IN  IF FEq(secondDerivative, FZero) THEN FOne
        ELSE FMin(FDiv(FOne, secondDerivative), KMax)

\* s.Nodes[i].Allocation = allocations[i] / total
NormalizeMutTotal(s, allocations) ==
    LET total == SumF(allocations)
    IN  [s EXCEPT !.TotalLambda = total,
                  !.Nodes = [i \in 1..Len(s.Nodes) |->
                     [s.Nodes[i] EXCEPT !.Allocation = FDiv(allocations[i], total)]]]

Normalize(s, allocations) ==
    LET total == SumF(allocations)
    IN  [s EXCEPT !.Nodes = [i \in 1..Len(s.Nodes) |->
                     [s.Nodes[i] EXCEPT !.Allocation = FDiv(allocations[i], total)]]]

\* math.Max(0.001, math.Min(0.90, newAlloc))
Clamp(newAlloc) == FMax(ClampLo, FMin(ClampHi, newAlloc))

\* ------------------------------------------------- steps of the algorithms

\* avgDerivative: the sum of the derivatives divided by float64(n)
Mean(ds) == FDiv(SumF(ds), FInt(Len(ds)))

\* weightedAvg := sumKU / sumK
WeightedAvg(ks, ds) ==
    FDiv(SumF([i \in 1..Len(ds) |-> FMul(ks[i], ds[i])]), SumF(ks))

\* maxDiff: "if diff > maxDiff { maxDiff = diff }" over the derivatives
RECURSIVE MaxDiffUpTo(_, _, _)
MaxDiffUpTo(ds, avg, k) ==
    IF k = 0 THEN FZero
    ELSE LET before == MaxDiffUpTo(ds, avg, k - 1)
             diff == FAbs(FSub(ds[k], avg))
         IN  IF FGt(diff, before) THEN diff ELSE before

MaxDiff(ds, avg) == MaxDiffUpTo(ds, avg, Len(ds))

\* delta := -alpha * (derivatives[i] - avgDerivative)
DeltaFirstMutPlus(alpha, d, avgDerivative) ==
    FMul(alpha, FSub(d, avgDerivative))

DeltaFirst(alpha, d, avgDerivative) ==
    FMul(FNeg(alpha), FSub(d, avgDerivative))

\* step 4 of FirstDerivativeAlgorithm: the clamped new allocations
NewAllocationsFirst(s, alpha, ds, avg) ==
    [i \in 1..Len(s.Nodes) |->
        Clamp(FAdd(s.Nodes[i].Allocation, DeltaFirst(alpha, ds[i], avg)))]

\* step 4 of SecondDerivativeAlgorithm
NewAllocationsSecond(s, alpha, ks, ds, avg) ==
    [i \in 1..Len(s.Nodes) |->
        LET delta == FMul(FMul(FNeg(alpha), ks[i]), FSub(ds[i], avg))
        IN  Clamp(FAdd(s.Nodes[i].Allocation, delta))]

\* exchange := -alpha * (ki * kj) / (ki + kj) * (di - dj)
Exchange(alpha, ks, ds, edge) ==
    LET i == edge.From + 1
        j == edge.To + 1
    IN  FMul(FDiv(FMul(FNeg(alpha), FMul(ks[i], ks[j])), FAdd(ks[i], ks[j])),
             FSub(ds[i], ds[j]))

\* deltas after the first k edges of the topology
RECURSIVE DeltasUpTo(_, _, _, _, _, _)
DeltasUpTo(n, topology, alpha, ks, ds, k) ==
    IF k = 0 THEN [i \in 1..n |-> FZero]
    ELSE LET before == DeltasUpTo(n, topology, alpha, ks, ds, k - 1)
             edge == topology[k]
             exchange == Exchange(alpha, ks, ds, edge)
             plus == [before EXCEPT ![edge.From + 1] = FAdd(@, exchange)]
         IN  [plus EXCEPT ![edge.To + 1] = FSub(@, exchange)]

Deltas(n, topology, alpha, ks, ds) ==
    DeltasUpTo(n, topology, alpha, ks, ds, Len(topology))

\* step 3 of PairwiseAlgorithm: no edge with diff >= epsilon
EdgesConverged(topology, ds, epsilon) ==
    \A k \in 1..Len(topology) :
        ~FGe(FAbs(FSub(ds[topology[k].From + 1], ds[topology[k].To + 1])),
             epsilon)

\* step 4 of PairwiseAlgorithm
NewAllocationsPairwise(s, dl) ==
    [i \in 1..Len(s.Nodes) |-> Clamp(FAdd(s.Nodes[i].Allocation, dl[i]))]

\* s.CostHistory = append(s.CostHistory, cost)
AppendCostMutSkipInf(s) ==
    IF ComputeCost(s) = PInf THEN s
    ELSE [s EXCEPT !.CostHistory = Append(@, ComputeCost(s))]

AppendCost(s) == [s EXCEPT !.CostHistory = Append(@, ComputeCost(s))]

\* ------------------------------------------------------------------ inputs

MaxNodes == 3
MaxIter == 3

\* m thousandths as a float64
Dec(m) == m * (Scale \div 1000)

\* config.json: lambdas, mu, K (positive rates, K > 0)
Configs ==
    { c \in { [lambdas |-> <<Dec(300), Dec(200)>>, mu |-> Dec(1500), K |-> Dec(1000)],
              [lambdas |-> <<Dec(1000), Dec(1000)>>, mu |-> Dec(1000), K |-> Dec(1000)],
              [lambdas |-> <<Dec(1000), Dec(9000)>>, mu |-> Dec(9000), K |-> Dec(1000)],
              [lambdas |-> <<Dec(1000), Dec(2000)>>, mu |-> Dec(1000), K |-> Dec(2000)],
              [lambdas |-> <<Dec(1000)>>, mu |-> Dec(2000), K |-> Dec(1000)],
              [lambdas |-> <<Dec(300), Dec(200), Dec(400)>>, mu |-> Dec(1500), K |-> Dec(1000)],
              [lambdas |-> <<Dec(300), Dec(200), Dec(400), Dec(100)>>,
               mu |-> Dec(1500), K |-> Dec(1000)] } :
        Len(c.lambdas) <= MaxNodes }

Alphas == {Dec(10), Dec(160)}
Epsilons == {Dec(16), Dec(31)}

Inputs ==
    { [lambdas |-> c.lambdas, mu |-> c.mu, K |-> c.K,
       alpha |-> a, maxIter |-> m, epsilon |-> e] :
        c \in Configs, a \in Alphas, m \in 0..MaxIter, e \in Epsilons }

Edge(from, to) == [From |-> from, To |-> to]

Chain(n) == [k \in 1..(n - 1) |-> Edge(k - 1, k)]

Complete(n) ==
    SelectSeq([k \in 1..(n * n) |-> Edge((k - 1) \div n, (k - 1) % n)],
              LAMBDA e : e.From < e.To)

\* topologies over valid node ids: none, one edge, a duplicated edge, a
\* path, the complete graph
Topologies(n) ==
    IF n < 2 THEN {<<>>}
    ELSE {<<>>, <<Edge(0, 1)>>, <<Edge(0, 1), Edge(0, 1)>>, Chain(n), Complete(n)}

\* ------------------------------------------------------------------- state

VARIABLES
    input,        \* the configuration and the arguments alpha, maxIter, epsilon
    topology,     \* the edges handed to PairwiseAlgorithm
    system,       \* system1, system2, system3 of main
    cur,          \* which of the three runs main is in
    pc,           \* where the main goroutine is
    iteration,    \* the loop variable of the running algorithm
    derivatives,  \* this iteration's result vectors
    kValues,
    deltas,
    avg,          \* avgDerivative or weightedAvg
    maxDiff,
    wg,           \* the WaitGroup counter
    worker,       \* each goroutine of the iteration: idle, run, k, done
    spawnI,       \* the i of "for i := range n"
    notice        \* the iteration printed as "Converge la iteratia", or -1

vars == <<input, topology, system, cur, pc, iteration, derivatives, kValues,
          deltas, avg, maxDiff, wg, worker, spawnI, notice>>

Algs == <<"first", "second", "pairwise">>
Alg == Algs[cur]

N == Len(input.lambdas)

Zeros(n) == [i \in 1..n |-> FZero]

Init ==
    /\ input \in Inputs
    /\ topology = <<>>
    /\ system = [a \in 1..3 |-> NilSystem]
    /\ cur = 1
    /\ pc = "create"
    /\ iteration = 0
    /\ derivatives = <<>>
    /\ kValues = <<>>
    /\ deltas = <<>>
    /\ avg = FZero
    /\ maxDiff = FZero
    /\ wg = 0
    /\ worker = <<>>
    /\ spawnI = 0
    /\ notice = [a \in 1..3 |-> -1]

\* main: systemN := CreateNewSystem(lambdas, mu, K), then the call
Call ==
    /\ pc = "create"
    /\ system' = [system EXCEPT ![cur] =
                     CreateNewSystem(input.lambdas, input.mu, input.K)]
    /\ \E top \in (IF Alg = "pairwise" THEN Topologies(N) ELSE {<<>>}) :
          topology' = top
    /\ iteration' = 0
    /\ pc' = "loop"
    /\ UNCHANGED <<input, cur, derivatives, kValues, deltas, avg, maxDiff, wg,
                   worker, spawnI, notice>>

\* iteration < maxIter
LoopCondMutLe(it, maxIter) == it <= maxIter

LoopCond(it, maxIter) == it < maxIter

\* the loop head and the make() of the result vectors
StartIteration ==
    /\ pc = "loop"
    /\ LoopCond(iteration, input.maxIter)
    /\ derivatives' = Zeros(N)
    /\ kValues' = IF Alg = "first" THEN <<>> ELSE Zeros(N)
    /\ worker' = [i \in 1..N |-> "idle"]
    /\ spawnI' = 0
    /\ pc' = "spawn"
    /\ UNCHANGED <<input, topology, system, cur, iteration, deltas, avg,
                   maxDiff, wg, notice>>

ExitLoop ==
    /\ pc = "loop"
    /\ ~LoopCond(iteration, input.maxIter)
    /\ pc' = "final"
    /\ UNCHANGED <<input, topology, system, cur, iteration, derivatives,
                   kValues, deltas, avg, maxDiff, wg, worker, spawnI, notice>>

\* wg.Add(1); go func(index int) {...}(i)
Spawn ==
    /\ pc = "spawn"
    /\ wg' = wg + 1
    /\ worker' = [worker EXCEPT ![spawnI + 1] = "run"]
    /\ spawnI' = spawnI + 1
    /\ pc' = IF spawnI + 1 = N THEN "wait" ELSE "spawn"
    /\ UNCHANGED <<input, topology, system, cur, iteration, derivatives,
                   kValues, deltas, avg, maxDiff, notice>>

\* go func(index int) {...}(i): index is the goroutine's own copy of the
\* loop variable i
IndexMutShared(i) == spawnI

Index(i) == i

\* derivatives[index] = s.ComputeFirstDerivative(index)
WorkerFirstDerivative(i) ==
    /\ i \in DOMAIN worker
    /\ worker[i] = "run"
    /\ derivatives' = [derivatives EXCEPT ![Index(i)] =
                          ComputeFirstDerivative(system[cur], Index(i))]
    /\ IF Alg = "first"
       THEN /\ worker' = [worker EXCEPT ![i] = "done"]
            /\ wg' = wg - 1
       ELSE /\ worker' = [worker EXCEPT ![i] = "k"]
            /\ wg' = wg
    /\ UNCHANGED <<input, topology, system, cur, pc, iteration, kValues,
                   deltas, avg, maxDiff, spawnI, notice>>

\* kValues[index] = s.Compute1onSecondDerivative(index), then wg.Done()
WorkerSecondDerivative(i) ==
    /\ i \in DOMAIN worker
    /\ worker[i] = "k"
    /\ kValues' = [kValues EXCEPT ![Index(i)] =
                      Compute1onSecondDerivative(system[cur], Index(i))]
    /\ worker' = [worker EXCEPT ![i] = "done"]
    /\ wg' = wg - 1
    /\ UNCHANGED <<input, topology, system, cur, pc, iteration, derivatives,
                   deltas, avg, maxDiff, spawnI, notice>>

\* wg.Wait() returns when the counter is zero
WaitDoneMutOne(w) == w <= 1

WaitDone(w) == w = 0

WgWait ==
    /\ pc = "wait"
    /\ WaitDone(wg)
    /\ pc' = "reduce"
    /\ UNCHANGED <<input, topology, system, cur, iteration, derivatives,
                   kValues, deltas, avg, maxDiff, wg, worker, spawnI, notice>>

\* steps 2 and 3 of FirstDerivativeAlgorithm: the mean and maxDiff
ReduceFirst ==
    /\ pc = "reduce"
    /\ Alg = "first"
    /\ avg' = Mean(derivatives)
    /\ maxDiff' = MaxDiff(derivatives, avg')
    /\ pc' = "check"
    /\ UNCHANGED <<input, topology, system, cur, iteration, derivatives,
                   kValues, deltas, wg, worker, spawnI, notice>>

\* steps 2 and 3 of SecondDerivativeAlgorithm: the weighted mean and maxDiff
ReduceSecond ==
    /\ pc = "reduce"
    /\ Alg = "second"
    /\ avg' = WeightedAvg(kValues, derivatives)
    /\ maxDiff' = MaxDiff(derivatives, avg')
    /\ pc' = "check"
    /\ UNCHANGED <<input, topology, system, cur, iteration, derivatives,
                   kValues, deltas, wg, worker, spawnI, notice>>

\* step 2 of PairwiseAlgorithm: the exchanges on the edges
ExchangeStep ==
    /\ pc = "reduce"
    /\ Alg = "pairwise"
    /\ deltas' = Deltas(N, topology, input.alpha, kValues, derivatives)
    /\ pc' = "check"
    /\ UNCHANGED <<input, topology, system, cur, iteration, derivatives,
                   kValues, avg, maxDiff, wg, worker, spawnI, notice>>

\* the test that ends the loop early
Converged ==
    IF Alg = "pairwise"
    THEN EdgesConverged(topology, derivatives, input.epsilon)
    ELSE FLt(maxDiff, input.epsilon)

\* fmt.Println("Converge la iteratia:", iteration); break
Break ==
    /\ pc = "check"
    /\ Converged
    /\ notice' = [notice EXCEPT ![cur] = iteration]
    /\ pc' = "final"
    /\ UNCHANGED <<input, topology, system, cur, iteration, derivatives,
                   kValues, deltas, avg, maxDiff, wg, worker, spawnI>>

NewAllocations ==
    IF Alg = "first"
    THEN NewAllocationsFirst(system[cur], input.alpha, derivatives, avg)
    ELSE IF Alg = "second"
    THEN NewAllocationsSecond(system[cur], input.alpha, kValues, derivatives, avg)
    ELSE NewAllocationsPairwise(system[cur], deltas)

\* steps 4 and 5: the clamped update, Normalize, ComputeCost, append,
\* iteration++
Update ==
    /\ pc = "check"
    /\ ~Converged
    /\ system' = [system EXCEPT ![cur] =
                     AppendCost(Normalize(system[cur], NewAllocations))]
    /\ iteration' = iteration + 1
    /\ pc' = "loop"
    /\ UNCHANGED <<input, topology, cur, derivatives, kValues, deltas, avg,
                   maxDiff, wg, worker, spawnI, notice>>

\* printFinalState(s) and the return to main
Final ==
    /\ pc = "final"
    /\ IF cur < 3
       THEN cur' = cur + 1 /\ pc' = "create"
       ELSE cur' = cur /\ pc' = "done"
    /\ iteration' = 0
    /\ derivatives' = <<>>
    /\ kValues' = <<>>
    /\ deltas' = <<>>
    /\ avg' = FZero
    /\ maxDiff' = FZero
    /\ worker' = <<>>
    /\ spawnI' = 0
    /\ UNCHANGED <<input, topology, system, wg, notice>>

Next ==
    \/ Call
    \/ StartIteration
    \/ ExitLoop
    \/ Spawn
    \/ \E i \in 1..N : WorkerFirstDerivative(i)
    \/ \E i \in 1..N : WorkerSecondDerivative(i)
    \/ WgWait
    \/ ReduceFirst
    \/ ReduceSecond
    \/ ExchangeStep
    \/ Break
    \/ Update
    \/ Final

Spec == Init /\ [][Next]_vars

\* The Go runtime keeps running some runnable goroutine: as long as a step of
\* main or of a worker goroutine is possible, one is taken.
FairSpec == Spec /\ WF_vars(Next)

\* ------------------------------------------------------------------- claims

Created(a) == Len(system[a].Nodes) > 0

Running == pc \in {"loop", "spawn", "wait", "reduce", "check", "final"}

History(a) == system[a].CostHistory

\* C2: the cost history of a run starts empty, changes only by the append of
\* one entry in an iteration's update (never in the stopping iteration), has
\* as many entries as completed iterations, and when the run ends holds
\* maxIter entries if no convergence notice was printed and otherwise t
\* entries, t < maxIter being the iteration of the notice.
C2_HistoryTracksRun ==
    [][ /\ pc = "create" => History(cur)' = <<>>
        /\ \A a \in 1..3 :
              \/ History(a)' = History(a)
              \/ /\ a = cur /\ pc = "check" /\ ~Converged
                 /\ Len(History(a)') = Len(History(a)) + 1
                 /\ SubSeq(History(a)', 1, Len(History(a))) = History(a)
                 /\ iteration' = iteration + 1
        /\ pc = "check" /\ Converged => History(cur)' = History(cur)
        /\ Running' => Len(History(cur)') = iteration'
        /\ pc' = "final" =>
              /\ notice'[cur] = -1 => Len(History(cur)') = input.maxIter
              /\ notice'[cur] # -1 =>
                    /\ notice'[cur] < input.maxIter
                    /\ Len(History(cur)') = notice'[cur]
      ]_vars

\* a finished program in which the first run stopped early at iteration 1
\* with one entry and the third run used its whole budget of 2 or more
C2_Witness ==
    /\ pc = "done"
    /\ notice[1] = 1 /\ Len(History(1)) = 1
    /\ notice[3] = -1 /\ input.maxIter >= 2 /\ Len(History(3)) = input.maxIter

\* C5: every run ends within its budget: the loop variable and the history
\* never exceed maxIter, whatever the costs (+Inf and NaN included), each
\* barrier is eventually passed, and the program reaches its end.
C5_Terminates ==
    /\ [](\A a \in 1..3 : Len(History(a)) <= input.maxIter)
    /\ [](iteration <= input.maxIter)
    /\ ((pc = "wait") ~> (pc = "reduce"))
    /\ <>(pc = "done")

\* the end of a program whose first run never converged and recorded an
\* unstable (+Inf) cost on the way
C5_Witness ==
    /\ pc = "done"
    /\ input.maxIter >= 2
    /\ notice[1] = -1
    /\ \E k \in 1..Len(History(1)) : History(1)[k] = PInf

AllWorkersDone == \A i \in DOMAIN worker : worker[i] = "done"

\* C6: allocations and history are written only by the update that follows
\* the barrier, when every goroutine of the iteration has finished; a
\* goroutine writes only its own slot of derivatives and kValues, from the
\* allocations as they were when the iteration began; the goroutines of the
\* next iteration start only after the update (history as long as the
\* iteration number).
C6_Barrier ==
    [][ /\ (system' # system /\ pc # "create") =>
              /\ pc = "check"
              /\ wg = 0
              /\ DOMAIN worker = 1..N
              /\ AllWorkersDone
        /\ \A i \in DOMAIN worker \cap DOMAIN worker' :
              (worker'[i] # worker[i] /\ worker[i] \in {"run", "k"}) =>
                 /\ system' = system
                 /\ \A j \in DOMAIN derivatives :
                       j # i => derivatives'[j] = derivatives[j]
                 /\ \A j \in DOMAIN kValues :
                       j # i => kValues'[j] = kValues[j]
                 /\ Len(History(cur)) = iteration
        /\ (pc' \in {"reduce", "check"}) =>
              \A i \in 1..N :
                 /\ derivatives'[i] = ComputeFirstDerivative(system'[cur], i)
                 /\ Alg # "first" =>
                       kValues'[i] = Compute1onSecondDerivative(system'[cur], i)
      ]_vars

\* in the second iteration or later, main waits at the barrier while one
\* goroutine has finished and another has not
C6_Witness ==
    /\ pc = "wait"
    /\ iteration >= 1
    /\ \E i, j \in DOMAIN worker : worker[i] = "done" /\ worker[j] = "run"

\* exact sum of a vector of finite values
RECURSIVE IntSum(_, _)
IntSum(vs, k) == IF k = 0 THEN 0 ELSE IntSum(vs, k - 1) + vs[k]

\* what CreateNewSystem fixes: ids and order, every lambda and mu, K,
\* TotalLambda
Static(s) ==
    [ids |-> [i \in 1..Len(s.Nodes) |-> s.Nodes[i].ID],
     lambdas |-> [i \in 1..Len(s.Nodes) |-> s.Nodes[i].Lambda],
     mus |-> [i \in 1..Len(s.Nodes) |-> s.Nodes[i].Mu],
     K |-> s.K,
     TotalLambda |-> s.TotalLambda]

\* C10: a run changes only the allocations and the history of its own
\* System: the other Systems are not touched, and ids, order, lambda, mu, K
\* and TotalLambda = sum of the lambdas stay as CreateNewSystem set them.
C10_Frame ==
    [][ /\ \A a \in 1..3 : a # cur => system'[a] = system[a]
        /\ pc # "create" => Static(system'[cur]) = Static(system[cur])
        /\ pc = "create" =>
              Static(system'[cur]) =
                 [ids |-> [i \in 1..N |-> i - 1],
                  lambdas |-> input.lambdas,
                  mus |-> [i \in 1..N |-> input.mu],
                  K |-> input.K,
                  TotalLambda |-> IntSum(input.lambdas, N)]
      ]_vars

\* the third run has updated its System while the Systems of the first two
\* runs, built from the same configuration, hold their own results
C10_Witness ==
    /\ cur = 3
    /\ pc = "loop"
    /\ iteration >= 1
    /\ Len(History(1)) >= 1
    /\ Len(History(2)) >= 1
    /\ Allocations(system[3]) # Allocations(system[1])
    /\ Allocations(system[3]) # Allocations(CreateNewSystem(input.lambdas, input.mu, input.K))

\* the first derivatives of the allocation a System holds
FirstDerivatives(s) ==
    [i \in 1..Len(s.Nodes) |-> ComputeFirstDerivative(s, i)]

\* C1: in the state CreateNewSystem produces and after every update, the
\* allocations of a System sum to 1 (to the rounding of one unit per node)
\* and every allocation x has 0 < x < 1.  Stated for Systems of two or more
\* nodes: with a single node CreateNewSystem stores x = 1.0/1 = 1.
C1_Simplex ==
    \A a \in 1..3 :
        (Created(a) /\ Len(system[a].Nodes) >= 2) =>
            LET xs == Allocations(system[a])
                total == SumF(xs)
            IN  /\ IsFin(total)
                /\ Abs(total - FOne) <= Len(xs)
                /\ \A i \in 1..Len(xs) : FGt(xs[i], FZero) /\ FLt(xs[i], FOne)

\* C3: when FirstDerivativeAlgorithm or SecondDerivativeAlgorithm has
\* printed its convergence notice, the first derivatives of the final
\* allocation differ by less than epsilon: max - min < epsilon, that is
\* d_i - d_j < epsilon for every two nodes.
C3_SpreadBelowEpsilon ==
    \A a \in 1..2 :
        notice[a] # -1 =>
            LET ds == FirstDerivatives(system[a])
            IN  \A i, j \in 1..Len(ds) :
                    FLt(FSub(ds[i], ds[j]), input.epsilon)

\* |d_i - d_j| < epsilon on every edge of the topology, for the allocation
\* System s holds
EdgesWithinEpsilon(s) ==
    \A k \in 1..Len(topology) :
        FLt(FAbs(FSub(ComputeFirstDerivative(s, topology[k].From + 1),
                      ComputeFirstDerivative(s, topology[k].To + 1))),
            input.epsilon)

\* C4: PairwiseAlgorithm stops early at an iteration exactly when every edge
\* of the topology has |d_i - d_j| < epsilon, and after its convergence
\* notice every edge has it on the final allocation; pairs of nodes without
\* an edge are not constrained.
C4_StopsIffEdgesWithinEpsilon ==
    /\ (pc = "check" /\ Alg = "pairwise") =>
          (Converged <=> EdgesWithinEpsilon(system[cur]))
    /\ notice[3] # -1 => EdgesWithinEpsilon(system[3])

\* some node has mu - TotalLambda * x <= 0.01
Unstable(s) ==
    \E i \in 1..Len(s.Nodes) : FLe(Denominator(s, i), StabilityThreshold)

\* C7: ComputeCost is +Inf when some node has mu - TotalLambda * x <= 0.01
\* and a finite sum otherwise; the cost of every update, +Inf included, is
\* the last entry of the history when the loop goes on to the next
\* iteration.
C7_InstabilityIsAValue ==
    \A a \in 1..3 :
        Created(a) =>
            /\ Unstable(system[a]) => ComputeCost(system[a]) = PInf
            /\ ~Unstable(system[a]) => IsFin(ComputeCost(system[a]))
            /\ (a = cur /\ pc = "loop" /\ iteration >= 1) =>
                  /\ Len(History(a)) = iteration
                  /\ History(a)[iteration] = ComputeCost(system[a])

\* C8: an update stores clamp(v_i) / sum_j clamp(v_j) for the raw new
\* allocations v, every clamp(v_i) lying in [0.001, 0.90], and the stored
\* allocations sum to 1 (to the rounding of one unit per node).
C8_ClampThenNormalize ==
    [][ (pc = "check" /\ ~Converged) =>
            LET clamped == NewAllocations
                total == SumF(clamped)
                stored == Allocations(system'[cur])
            IN  /\ \A i \in 1..N :
                      /\ FGe(clamped[i], ClampLo)
                      /\ FLe(clamped[i], ClampHi)
                      /\ stored[i] = FDiv(clamped[i], total)
                /\ IsFin(SumF(stored))
                /\ Abs(SumF(stored) - FOne) <= N
      ]_vars

\* node i is an end of some edge of the topology
OnAnEdge(i) ==
    \E k \in 1..Len(topology) :
        topology[k].From + 1 = i \/ topology[k].To + 1 = i

\* C9: after the exchange step of every iteration of PairwiseAlgorithm the
\* pending deltas of all nodes sum to zero and a node on no edge has delta
\* zero, duplicate edges counted once each.
C9_DeltasSumToZero ==
    (pc = "check" /\ Alg = "pairwise") =>
        /\ deltas = Deltas(N, topology, input.alpha, kValues, derivatives)
        /\ SumF(deltas) = FZero
        /\ \A i \in 1..N : ~OnAnEdge(i) => deltas[i] = FZero

\* C11: in every non-stopping iteration of FirstDerivativeAlgorithm a node
\* whose derivative is above the mean of the derivatives ends the iteration
\* with a smaller allocation than it started with, and a node whose
\* derivative is below the mean with a larger one, clamp and Normalize
\* applied.
C11_DirectionAfterNormalize ==
    [][ (pc = "check" /\ Alg = "first" /\ ~Converged) =>
            \A i \in 1..N :
                LET before == system[cur].Nodes[i].Allocation
                    after == system'[cur].Nodes[i].Allocation
                IN  /\ FGt(derivatives[i], avg) => FLt(after, before)
                    /\ FLt(derivatives[i], avg) => FGt(after, before)
      ]_vars

\* newAlloc := s.Nodes[i].Allocation + delta, before the clamp, in the
\* running iteration of FirstDerivativeAlgorithm
RawFirst(i) ==
    FAdd(system[cur].Nodes[i].Allocation,
         DeltaFirst(input.alpha, derivatives[i], avg))

\* C11, amended: in every non-stopping iteration of FirstDerivativeAlgorithm
\* the step moves a node whose derivative is above the mean down and a node
\* whose derivative is below the mean up before the clamp: newAlloc is not
\* larger, respectively not smaller, than the allocation the node started
\* with; what is stored is clamp(newAlloc_i) / sum_j clamp(newAlloc_j), which
\* need not keep that direction.
C11_DirectionBeforeClamp ==
    [][ (pc = "check" /\ Alg = "first" /\ ~Converged) =>
            LET clamped == [j \in 1..N |-> Clamp(RawFirst(j))]
            IN  \A i \in 1..N :
                    LET before == system[cur].Nodes[i].Allocation
                    IN  /\ FGt(derivatives[i], avg) => FLe(RawFirst(i), before)
                        /\ FLt(derivatives[i], avg) => FGe(RawFirst(i), before)
                        /\ system'[cur].Nodes[i].Allocation =
                              FDiv(clamped[i], SumF(clamped))
      ]_vars

\* the first run after its first update: one node had its derivative above
\* the mean and holds less than the uniform share it started with, another
\* had it below the mean and holds more
C11_Witness ==
    /\ cur = 1
    /\ pc = "loop"
    /\ iteration = 1
    /\ \A i \in 1..N : IsFin(derivatives[i])
    /\ \E i, j \in 1..N :
          /\ FGt(derivatives[i], avg)
          /\ FLt(derivatives[j], avg)
          /\ FLt(system[1].Nodes[i].Allocation, FDiv(FOne, FInt(N)))
          /\ FGt(system[1].Nodes[j].Allocation, FDiv(FOne, FInt(N)))

\* the k values of the allocation a System holds
KValuesOf(s) ==
    [i \in 1..Len(s.Nodes) |-> Compute1onSecondDerivative(s, i)]

\* the convergence test of algorithm alg on System s, the nodes taken in
\* index order
SeqConverged(alg, inp, top, s) ==
    LET ds == FirstDerivatives(s)
    IN  IF alg = "pairwise" THEN EdgesConverged(top, ds, inp.epsilon)
        ELSE IF alg = "first"
        THEN FLt(MaxDiff(ds, Mean(ds)), inp.epsilon)
        ELSE FLt(MaxDiff(ds, WeightedAvg(KValuesOf(s), ds)), inp.epsilon)

\* the update of algorithm alg on System s, the nodes taken in index order
SeqUpdate(alg, inp, top, s) ==
    LET ds == FirstDerivatives(s)
        ks == KValuesOf(s)
        new == IF alg = "first"
               THEN NewAllocationsFirst(s, inp.alpha, ds, Mean(ds))
               ELSE IF alg = "second"
               THEN NewAllocationsSecond(s, inp.alpha, ks, ds,
                                         WeightedAvg(ks, ds))
               ELSE NewAllocationsPairwise(s,
                       Deltas(Len(s.Nodes), top, inp.alpha, ks, ds))
    IN  AppendCost(Normalize(s, new))

\* the System at the start of iteration t of a run that has not stopped
RECURSIVE SeqAt(_, _, _, _)
SeqAt(alg, inp, top, t) ==
    IF t = 0 THEN CreateNewSystem(inp.lambdas, inp.mu, inp.K)
    ELSE SeqUpdate(alg, inp, top, SeqAt(alg, inp, top, t - 1))

\* the outcome of the run from iteration it on: the final System and the
\* iteration of the convergence notice, -1 when there is none
RECURSIVE SeqRun(_, _, _, _, _)
SeqRun(alg, inp, top, s, it) ==
    IF ~LoopCond(it, inp.maxIter) THEN [system |-> s, notice |-> -1]
    ELSE IF SeqConverged(alg, inp, top, s) THEN [system |-> s, notice |-> it]
    ELSE SeqRun(alg, inp, top, SeqUpdate(alg, inp, top, s), it + 1)

\* C12: whatever the interleaving of the goroutines, a run is the one the
\* inputs determine: iteration t starts from the System the inputs give at
\* t, after its barrier the derivative and k vectors are those of that
\* System's allocation, and a run that has ended (and every run when the
\* program has ended) has the stopping iteration, the final allocation and
\* the cost history of the run that takes the nodes in index order.
C12_SchedulingDeterminism ==
    /\ pc = "loop" => system[cur] = SeqAt(Alg, input, topology, iteration)
    /\ pc \in {"reduce", "check"} =>
          /\ derivatives = FirstDerivatives(system[cur])
          /\ Alg # "first" => kValues = KValuesOf(system[cur])
    /\ \A a \in 1..3 :
          ((a = cur /\ pc = "final") \/ pc = "done") =>
              LET top == IF a = 3 THEN topology ELSE <<>>
                  run == SeqRun(Algs[a], input, top,
                                CreateNewSystem(input.lambdas, input.mu,
                                                input.K), 0)
              IN  /\ system[a] = run.system
                  /\ notice[a] = run.notice

\* in the second iteration or later of SecondDerivativeAlgorithm the
\* goroutine of node 1 has written its derivative and k while the goroutine
\* of node 0, started first, has written nothing yet
C12_Witness ==
    /\ Alg = "second"
    /\ pc = "wait"
    /\ iteration >= 1
    /\ N >= 2
    /\ worker[1] = "run"
    /\ worker[2] = "done"
    /\ derivatives[2] = ComputeFirstDerivative(system[cur], 2)
    /\ derivatives[2] # FZero
    /\ derivatives[1] = FZero

====
